---- MODULE Spec2Model ----
(***************************************************************************)
(* Model of app.py: the AudioRecorder (recording flag, frame buffer and    *)
(* the background capture thread), the Streamlit handlers that drive it,   *)
(* and the transcribe / summarize / save_summary pipeline.                 *)
(***************************************************************************)
EXTENDS Integers, Sequences, FiniteSets, TLC

\* ---------------------------------------------------------------- bounds
\* number of start_recording calls explored (one capture thread each)
MaxStarts == 2
\* number of chunks the audio driver delivers over the whole run
MaxChunks == 1
\* number of "Transcribe and Summarize" runs explored
MaxRuns == 2
\* samples in one chunk delivered by the driver
ChunkLen == 2
\* number of saved recordings explored (length of recorded_files)
MaxFiles == 2

\* ------------------------------------------------------------- constants
SAMPLE_RATE == 44100
None == "None"
groq_api_key == "gsk"

Threads == 1..MaxStarts

\* readings of datetime.datetime.now(), in seconds
Times == {0, 1}

\* texts the speech-to-text engine can return (the empty text included)
Texts == {"", "hello world"}
\* outcomes of model.transcribe: a text, or an exception
EngineOutcomes == {[raised |-> FALSE, text |-> x] : x \in Texts}
                     \cup {[raised |-> TRUE, text |-> ""]}
\* completions the chat API can return
Completions == {"Summary: hello", "Summary: world"}
\* exchanges in which requests.post raises: no connection, a body that
\* breaks off while it is read, a redirect that is followed 30 times
TransportFailures == {"network", "body_broken", "redirect_loop"}
\* exchanges in which summarize_text raises: a transport failure, a 401 or
\* another status from 400 to 599, a body that is not JSON, that lacks one
\* of the keys choices, message, content, whose choices list is empty, or
\* that has another type where a dict or a list is subscripted
ApiFailures == {"401", "500", "not_json", "missing_key", "empty_choices",
                "wrong_type"} \cup TransportFailures
\* the status of the last response received in an exchange, 0 when none
\* arrives
status_code(kind) ==
  CASE kind = "network" -> 0
    [] kind = "redirect_loop" -> 302
    [] kind = "300" -> 300
    [] kind = "401" -> 401
    [] kind = "500" -> 500
    [] OTHER -> 200
\* outcomes of the HTTP exchange: 200 with a well formed body, 200 with a
\* null message content, a 3xx that is not followed (300, 304) with a well
\* formed body, or one of the failures
ApiOutcomes ==
  {[kind |-> "ok", status |-> status_code("ok"), content |-> c] :
     c \in Completions}
    \cup {[kind |-> "null", status |-> status_code("null"), content |-> None]}
    \cup {[kind |-> "300", status |-> status_code("300"), content |-> c] :
            c \in Completions}
    \cup {[kind |-> k, status |-> status_code(k), content |-> ""] :
            k \in ApiFailures}
\* outcomes of the I/O on class_notes.txt: all written, open() fails, or the
\* file opens and the flush at close stops at a limit (file size limit, full
\* disk): before the first byte, inside the header, at the header's end,
\* inside the summary, or before the final newline
WriteFailures == {"fails_at_0", "fails_in_header", "fails_at_header",
                  "fails_in_summary", "fails_at_newline"}
\* and, with the I/O working, a summary that the file's encoding cannot
\* encode
IoOutcomes == {"ok", "open_fails", "encode_fails"} \cup WriteFailures
\* where a click or rerun that is pending ends a run of the Start handler:
\* nowhere, at st.error, or at the st.button call that draws Stop
StartEnds == {"nowhere", "st.error", "st.button"}
\* where a click or rerun that is pending ends a run in which no handler
\* runs: nowhere, at an st call up to the one that draws Start (st.title,
\* the sidebar, st.columns, st.button), or at the st.button call that draws
\* Stop
RerunEnds == {"nowhere", "before_start", "st.button"}

VARIABLES
  recording,         \* AudioRecorder.recording
  frames,            \* AudioRecorder.frames
  thr,               \* position of each capture thread in _record
  nchunks,           \* chunks delivered by the driver so far
  nstarts,           \* start_recording calls so far
  recording_status,  \* st.session_state.recording_status
  recorded_files,    \* st.session_state.recorded_files
  pc,                \* position of the script thread inside a handler
  saved,             \* save_recording was called since the last start_recording
  start_disabled,    \* the Start button as the last run drew it
  stop_disabled,     \* the Stop button as the last run drew it
  msg,               \* message rendered by the last handler
  disk,              \* recordings/: file name -> frames written
  notes,             \* class_notes.txt, as the sequence of writes
  run,               \* locals of the last Transcribe and Summarize run
                     \* and whether a pending click or rerun ended it
  nruns              \* Transcribe and Summarize runs so far

vars == <<recording, frames, thr, nchunks, nstarts, recording_status,
          recorded_files, pc, saved, start_disabled, stop_disabled, msg,
          disk, notes, run, nruns>>

recorderVars == <<recording, frames, thr, nchunks, nstarts>>
uiVars == <<recording_status, recorded_files, pc, saved, start_disabled,
           stop_disabled, msg>>
pipeVars == <<notes, run, nruns>>

\* ------------------------------------------------------------ helpers
IsPrefix(s, t) == Len(s) <= Len(t) /\ SubSeq(t, 1, Len(s)) = s

\* a test that lets None through: transcription != ""
Truthy_not_empty(x) == x # ""

\* a test for None alone: transcription is not None
Truthy_not_none(x) == x # None

\* Python truthiness of an Optional[str]
Truthy(x) == x # None /\ x # ""

\* datetime.now().strftime(...): the clock reading rendered in a pattern
strftime(t, fmt) == <<fmt, t>>

\* a capture thread whose input stream is open
StreamOpen(t) == thr[t] \in {"check", "sleep", "closing"}
ActiveProducers == {t \in Threads : StreamOpen(t)}

\* the thread is inside _record (spawned and not yet returned)
Running(t) == thr[t] \in {"started", "check", "sleep", "closing"}

NoRun == [transcription |-> None, api |-> "none", summary |-> None,
          io |-> "none", calls |-> <<>>, stopped |-> FALSE]

Init ==
  /\ recording = FALSE
  /\ frames = <<>>
  /\ thr = [t \in Threads |-> "none"]
  /\ nchunks = 0
  /\ nstarts = 0
  /\ recording_status = FALSE
  /\ recorded_files = <<>>
  /\ pc = "idle"
  /\ saved = FALSE
  /\ start_disabled = FALSE
  /\ stop_disabled = TRUE
  /\ msg = <<>>
  /\ disk = {}
  /\ notes = <<>>
  /\ run = NoRun
  /\ nruns = 0

\* ------------------------------------------------------- AudioRecorder
\* start_recording: set the flag, drop the buffer, spawn _record.
\* spawned = FALSE is Thread.start() raising.
start_recording(spawned) ==
  [recording |-> TRUE,
   frames |-> <<>>,
   thr |-> IF spawned THEN [thr EXCEPT ![nstarts + 1] = "started"] ELSE thr,
   exc |-> IF spawned THEN None ELSE "RuntimeError"]

\* stop_recording: clear the flag and return.
stop_recording ==
  [recording |-> FALSE, exc |-> None]

\* _record, entering the with block: open the input stream
Open(t) ==
  /\ thr[t] = "started"
  /\ \E ok \in BOOLEAN :
       thr' = [thr EXCEPT ![t] = IF ok THEN "check" ELSE "failed"]
  /\ UNCHANGED <<recording, frames, nchunks, nstarts>>
  /\ UNCHANGED <<uiVars, pipeVars, disk>>

\* _record, the loop test: sleep again, or start leaving the with block
Check(t) ==
  /\ thr[t] = "check"
  /\ thr' = [thr EXCEPT ![t] = IF recording THEN "sleep" ELSE "closing"]
  /\ UNCHANGED <<recording, frames, nchunks, nstarts>>
  /\ UNCHANGED <<uiVars, pipeVars, disk>>

\* _record, the with block's exit: the stream is closed and _record returns
Close(t) ==
  /\ thr[t] = "closing"
  /\ thr' = [thr EXCEPT ![t] = "done"]
  /\ UNCHANGED <<recording, frames, nchunks, nstarts>>
  /\ UNCHANGED <<uiVars, pipeVars, disk>>

\* _record, sd.sleep(1000) returns
Wake(t) ==
  /\ thr[t] = "sleep"
  /\ thr' = [thr EXCEPT ![t] = "check"]
  /\ UNCHANGED <<recording, frames, nchunks, nstarts>>
  /\ UNCHANGED <<uiVars, pipeVars, disk>>

\* _audio_callback: the driver delivers a chunk to an open stream
AudioCallback(t) ==
  /\ StreamOpen(t)
  /\ nchunks < MaxChunks
  /\ nchunks' = nchunks + 1
  /\ frames' = Append(frames, [by |-> t, n |-> nchunks + 1])
  /\ UNCHANGED <<recording, thr, nstarts>>
  /\ UNCHANGED <<uiVars, pipeVars, disk>>

\* ------------------------------------------------------------ handlers
\* main, a run started by a click on Start Recording. The click arrives when
\* the last run drew the button enabled; this run draws Start from
\* recording_status as it is before the handler, and Stop after it. A click
\* or rerun that is pending ends the run at the next st call: at st.error
\* the message is not shown, and from there or at st.button Stop is not
\* drawn again.
StartHandler ==
  /\ pc = "idle"
  /\ ~start_disabled
  /\ nstarts < MaxStarts
  /\ start_disabled' = recording_status
  /\ \E spawned \in BOOLEAN, ended \in StartEnds :
       LET r == start_recording(spawned) IN
         /\ (ended = "st.error") => (r.exc # None)
         /\ recording' = r.recording
         /\ frames' = r.frames
         /\ thr' = r.thr
         /\ recording_status' = IF r.exc # None THEN recording_status ELSE TRUE
         /\ stop_disabled' = IF ended = "nowhere"
                             THEN ~recording_status' ELSE stop_disabled
         /\ msg' = IF r.exc # None /\ ended # "st.error"
                   THEN <<"Failed to start recording: ", r.exc>> ELSE <<>>
  /\ nstarts' = nstarts + 1
  /\ saved' = FALSE
  /\ UNCHANGED <<nchunks, recorded_files, pc, pipeVars, disk>>

\* main, a run started by a click on Stop Recording, up to the
\* stop_recording call. Both buttons are drawn before the handler runs.
StopHandler ==
  /\ pc = "idle"
  /\ ~stop_disabled
  /\ Len(recorded_files) < MaxFiles
  /\ start_disabled' = recording_status
  /\ stop_disabled' = ~recording_status
  /\ LET r == stop_recording IN
       /\ recording' = r.recording
       /\ pc' = IF r.exc # None THEN "idle" ELSE "saving"
       /\ msg' = IF r.exc # None
                 THEN <<"Failed to stop recording: ", r.exc>> ELSE <<>>
  /\ UNCHANGED <<frames, thr, nchunks, nstarts, recording_status,
                 recorded_files, saved, pipeVars, disk>>

\* the file system: create or replace the file at path
WriteFile(d, path, data, samplerate, channels) ==
  {f \in d : f.path # path}
    \cup {[path |-> path, data |-> data, samplerate |-> samplerate,
           channels |-> channels]}

\* the samples of one delivered chunk, indata.copy(): ChunkLen rows, 1 column
ChunkSamples(c) == [i \in 1..ChunkLen |-> <<c.n, i>>]

\* np.asarray of a list of chunks: the list is stacked along a new first
\* axis, never concatenated; the empty list is a 1-d array of length 0
asarray(fr) ==
  IF fr = <<>> THEN [shape |-> <<0>>, rows |-> <<>>]
  ELSE [shape |-> <<Len(fr), ChunkLen, 1>>,
        rows |-> [k \in 1..Len(fr) |-> ChunkSamples(fr[k])]]

\* sf.write(file, data, samplerate): channels is data.shape[1] unless data is
\* 1-d; the file is opened for writing, then SoundFile.write refuses an
\* array that is not 1-d or 2-d with one column per channel
sf_write(d, path, data, samplerate, writable) ==
  LET a == asarray(data)
      ndim == Len(a.shape)
      channels == IF ndim = 1 THEN 1 ELSE a.shape[2]
  IN IF ~writable THEN [disk |-> d, exc |-> "OSError"]
     ELSE IF \/ ndim \notin {1, 2}
             \/ ndim = 1 /\ channels # 1
             \/ ndim = 2 /\ a.shape[2] # channels
     THEN [disk |-> WriteFile(d, path, <<>>, samplerate, channels),
           exc |-> "ValueError"]
     ELSE [disk |-> WriteFile(d, path, a.rows, samplerate, channels),
           exc |-> None]

\* save_recording: write self.frames under recordings/<filename>
save_recording(filename, writable) ==
  LET filepath == <<"recordings", filename>>
      w == sf_write(disk, filepath, frames, SAMPLE_RATE, writable)
  IN [filepath |-> filepath, disk |-> w.disk, exc |-> w.exc]

\* main, the Stop Recording button: the rest of the try block. A click or
\* rerun that is pending ends the run at st.success or st.error (stopped),
\* before the message is shown.
SaveHandler ==
  /\ pc = "saving"
  /\ \E writable \in BOOLEAN, now \in Times, stopped \in BOOLEAN :
       LET timestamp == strftime(now, "%Y%m%d_%H%M%S")
           filename == <<"recording_", timestamp, ".wav">>
           r == save_recording(filename, writable)
       IN /\ disk' = r.disk
          /\ IF r.exc # None
             THEN /\ msg' = IF stopped THEN <<>>
                            ELSE <<"Failed to stop recording: ", r.exc>>
                  /\ UNCHANGED <<recorded_files, recording_status>>
             ELSE /\ recorded_files' = Append(recorded_files, r.filepath)
                  /\ recording_status' = FALSE
                  /\ msg' = IF stopped THEN <<>>
                            ELSE <<"Recording saved successfully!">>
  /\ pc' = "idle"
  /\ saved' = TRUE
  /\ UNCHANGED <<recorderVars, pipeVars, start_disabled, stop_disabled>>

\* ------------------------------------------------------------ pipeline
\* transcribe_audio: the engine's text, or None when the engine raises
transcribe_audio(engine) ==
  IF engine.raised THEN None ELSE engine.text

\* response.raise_for_status(): HTTPError for a status from 400 to 599 and
\* for no other
raise_for_status(status) ==
  IF 400 <= status /\ status < 600 THEN "HTTPError" ELSE None

\* GroqAPI.summarize_text: requests.post, raise_for_status, then the first
\* choice's message content; every exception is logged and raised again
summarize_text(api) ==
  [value |-> api.content,
   exc |-> CASE api.kind = "network" -> "ConnectionError"
             [] api.kind = "body_broken" -> "ChunkedEncodingError"
             [] api.kind = "redirect_loop" -> "TooManyRedirects"
             [] raise_for_status(api.status) # None ->
                  raise_for_status(api.status)
             [] api.kind = "not_json" -> "JSONDecodeError"
             [] api.kind = "missing_key" -> "KeyError"
             [] api.kind = "empty_choices" -> "IndexError"
             [] api.kind = "wrong_type" -> "TypeError"
             [] OTHER -> None]

\* open(filename, "w"): the existing content is dropped
OpenTruncate(file) == <<>>

\* open(filename, "a"): position at the end of the existing content
OpenAppend(file) == file

\* what reaches the file of a header that the flush cuts before its end:
\* the first bytes of the header
CutPiece(header) == <<header[1], "cut">>

\* what reaches the file of summary + "\n" when the flush stops inside the
\* summary: the first bytes of the summary
CutBody(summary) == <<summary, "cut">>

\* save_summary: append the timestamped header and the summary. The writes
\* are buffered and reach the file when the with block closes it: a flush
\* that stops at a limit leaves the bytes before the limit and raises
\* OSError. A summary that is not a str makes summary + "\n" raise after the
\* header is buffered, and a summary that the file's encoding cannot encode
\* makes the second file.write raise; the close then flushes the header
\* alone.
save_summary(summary, file, io, now) ==
  LET timestamp == strftime(now, "%Y-%m-%d %H:%M:%S")
      header == <<"\n--- Summary from ", timestamp, " ---\n">>
      body == <<summary, "\n">>
  IN CASE io = "open_fails" -> [file |-> file, exc |-> "OSError"]
       [] io = "fails_at_0" -> [file |-> OpenAppend(file), exc |-> "OSError"]
       [] io = "fails_in_header" ->
            [file |-> Append(OpenAppend(file), CutPiece(header)),
             exc |-> "OSError"]
       [] summary = None ->
            [file |-> Append(OpenAppend(file), header), exc |-> "TypeError"]
       [] io = "encode_fails" ->
            [file |-> Append(OpenAppend(file), header),
             exc |-> "UnicodeEncodeError"]
       [] io = "fails_at_header" ->
            [file |-> Append(OpenAppend(file), header), exc |-> "OSError"]
       [] io = "fails_in_summary" ->
            [file |-> Append(Append(OpenAppend(file), header),
                             CutBody(summary)),
             exc |-> "OSError"]
       [] io = "fails_at_newline" ->
            [file |-> Append(Append(OpenAppend(file), header),
                             <<summary, "">>),
             exc |-> "OSError"]
       [] OTHER ->
            [file |-> Append(Append(OpenAppend(file), header), body),
             exc |-> None]

\* main, a run started by a click on Transcribe and Summarize, which the
\* last run drew when recorded_files was not empty: the script draws the
\* buttons and enters transcribe_audio
PipelineHandler ==
  /\ pc = "idle"
  /\ recorded_files # <<>>
  /\ nruns < MaxRuns
  /\ nruns' = nruns + 1
  /\ start_disabled' = recording_status
  /\ stop_disabled' = ~recording_status
  /\ IF ~Truthy(groq_api_key)
     THEN /\ msg' = <<"Please enter your Groq API key in the sidebar.">>
          /\ run' = NoRun
          /\ pc' = "idle"
     ELSE /\ msg' = <<>>
          /\ run' = [NoRun EXCEPT !.calls = <<"transcribe_audio">>]
          /\ pc' = "transcribe_audio"
  /\ UNCHANGED <<recorderVars, recording_status, recorded_files, saved,
                 disk, notes>>

\* main, transcribe_audio returns. A click or rerun that is pending ends
\* the run at the next st call (stopped): at the spinner's exit, at the st
\* calls before summarize_text, or at st.error; nothing more is called and no
\* message is shown. Otherwise a text takes the script into summarize_text
\* and None or "" into the else branch.
TranscribeReturn ==
  /\ pc = "transcribe_audio"
  /\ \E engine \in EngineOutcomes, stopped \in BOOLEAN :
       LET transcription == transcribe_audio(engine) IN
       IF stopped
       THEN /\ pc' = "idle"
            /\ msg' = <<>>
            /\ run' = [run EXCEPT !.transcription = transcription,
                                  !.stopped = TRUE]
       ELSE IF Truthy(transcription)
       THEN /\ pc' = "summarize_text"
            /\ msg' = <<>>
            /\ run' = [run EXCEPT !.transcription = transcription,
                                  !.calls = Append(@, "summarize_text")]
       ELSE /\ pc' = "idle"
            /\ msg' = <<"Transcription failed. Please try recording again.">>
            /\ run' = [run EXCEPT !.transcription = transcription]
  /\ UNCHANGED <<recorderVars, recording_status, recorded_files, saved,
                 start_disabled, stop_disabled, disk, notes, nruns>>

\* main, summarize_text returns or raises. A click or rerun that is pending
\* ends the run at the next st call (stopped): at st.error of the except
\* branch, or at the st calls before save_summary; nothing more is called
\* and no message is shown. Otherwise the except branch shows the failure,
\* or the script enters save_summary.
SummarizeReturn ==
  /\ pc = "summarize_text"
  /\ \E api \in ApiOutcomes, stopped \in BOOLEAN :
       LET s == summarize_text(api)
           summary == IF s.exc # None THEN None ELSE s.value
       IN
       IF stopped
       THEN /\ pc' = "idle"
            /\ msg' = <<>>
            /\ run' = [run EXCEPT !.api = api.kind, !.summary = summary,
                                  !.stopped = TRUE]
       ELSE IF s.exc # None
       THEN /\ pc' = "idle"
            /\ msg' = <<"Failed to generate summary: ", s.exc>>
            /\ run' = [run EXCEPT !.api = api.kind]
       ELSE /\ pc' = "save_summary"
            /\ msg' = <<>>
            /\ run' = [run EXCEPT !.api = api.kind, !.summary = summary,
                                  !.calls = Append(@, "save_summary")]
  /\ UNCHANGED <<recorderVars, recording_status, recorded_files, saved,
                 start_disabled, stop_disabled, disk, notes, nruns>>

\* main, save_summary returns or raises: the success message or the except
\* branch. A click or rerun that is pending ends the run at st.success or
\* st.error (stopped), before the message is shown.
SaveSummaryReturn ==
  /\ pc = "save_summary"
  /\ \E io \in IoOutcomes, now \in Times, stopped \in BOOLEAN :
       LET w == save_summary(run.summary, notes, io, now) IN
       /\ notes' = w.file
       /\ msg' = IF stopped THEN <<>>
                 ELSE IF w.exc # None
                 THEN <<"Failed to generate summary: ", w.exc>>
                 ELSE <<"Summary saved to class_notes.txt">>
       /\ run' = [run EXCEPT !.io = io, !.stopped = stopped]
  /\ pc' = "idle"
  /\ UNCHANGED <<recorderVars, recording_status, recorded_files, saved,
                 start_disabled, stop_disabled, disk, nruns>>

\* main, a run in which no handler runs (Rerun, a changed source file, a
\* click whose run ends before the button's handler): both buttons are drawn
\* from recording_status and there is no message. A click or rerun that is
\* pending ends the run at an st call: up to the st.button call that draws
\* Start, both buttons stay as the last run drew them; at the st.button call
\* that draws Stop, Start alone is drawn again.
Rerun ==
  /\ pc = "idle"
  /\ \E ended \in RerunEnds :
       /\ start_disabled' = IF ended = "before_start"
                             THEN start_disabled ELSE recording_status
       /\ stop_disabled' = IF ended = "nowhere"
                            THEN ~recording_status ELSE stop_disabled
  /\ msg' = <<>>
  /\ UNCHANGED <<recorderVars, recording_status, recorded_files, pc, saved,
                 pipeVars, disk>>

Next ==
  \/ StartHandler
  \/ StopHandler
  \/ SaveHandler
  \/ Rerun
  \/ PipelineHandler
  \/ TranscribeReturn
  \/ SummarizeReturn
  \/ SaveSummaryReturn
  \/ \E t \in Threads : Open(t)
  \/ \E t \in Threads : Check(t)
  \/ \E t \in Threads : Wake(t)
  \/ \E t \in Threads : Close(t)
  \/ \E t \in Threads : AudioCallback(t)

Spec == Init /\ [][Next]_vars

\* The recorder on its own: the handlers of the two recording buttons and
\* the capture threads. The pipeline's steps leave the recorder alone; of
\* the handlers' variables they change pc and msg and redraw the buttons.
NextRecorder ==
  \/ StartHandler
  \/ StopHandler
  \/ SaveHandler
  \/ Rerun
  \/ \E t \in Threads : Open(t)
  \/ \E t \in Threads : Check(t)
  \/ \E t \in Threads : Wake(t)
  \/ \E t \in Threads : Close(t)
  \/ \E t \in Threads : AudioCallback(t)

SpecRecorder == Init /\ [][NextRecorder]_vars

\* Each spawned thread is scheduled: it opens its stream, tests the flag,
\* returns from sd.sleep and closes its stream. Nothing obliges the user to
\* click a button or the driver to deliver a chunk.
ThreadFairness ==
  \A t \in Threads :
    /\ WF_vars(Open(t)) /\ WF_vars(Check(t))
    /\ WF_vars(Wake(t)) /\ WF_vars(Close(t))

SpecRecorderLive == Init /\ [][NextRecorder]_vars /\ ThreadFairness

\* The pipeline on its own. Its steps read recorded_files and pc, write pc,
\* msg, notes, run and nruns and redraw the buttons; the recorder's actions
\* leave notes, run and nruns alone. InitRecorded is the program
\* after one recording with no chunk delivered was started, stopped and saved.
InitRecorded ==
  \E now \in Times :
    LET filepath == <<"recordings",
                      <<"recording_", strftime(now, "%Y%m%d_%H%M%S"), ".wav">> >>
    IN
    /\ recording = FALSE
    /\ frames = <<>>
    /\ thr = [t \in Threads |-> IF t = 1 THEN "done" ELSE "none"]
    /\ nchunks = 0
    /\ nstarts = 1
    /\ recording_status = FALSE
    /\ recorded_files = <<filepath>>
    /\ pc = "idle"
    /\ saved = TRUE
    /\ start_disabled = TRUE
    /\ stop_disabled = FALSE
    /\ msg = <<"Recording saved successfully!">>
    /\ disk = WriteFile({}, filepath, <<>>, SAMPLE_RATE, 1)
    /\ notes = <<>>
    /\ run = NoRun
    /\ nruns = 0

NextPipeline ==
  \/ PipelineHandler
  \/ TranscribeReturn
  \/ SummarizeReturn
  \/ SaveSummaryReturn

SpecPipeline == InitRecorded /\ [][NextPipeline]_vars
\* ============================================================== claims
\* the session has been stopped: stop_recording has returned and no
\* start_recording has been called since
Stopped == nstarts > 0 /\ ~recording

\* the state SpecPipeline starts from, reached by the whole program
NotInitRecorded == ~InitRecorded

\* C1: once stop_recording has returned, the buffer is never appended to
\* again: while the session stays stopped, self.frames does not change.
C1_NoAppendAfterStop ==
  [][(Stopped /\ Stopped') => frames' = frames]_vars

\* C2: stop_recording is synchronous: whenever it has returned, the capture
\* thread spawned by the matching start_recording has left _record.
C2_StopJoinsProducer ==
  Stopped => ~Running(nstarts)

\* C3: at most one capture producer (open input stream) is active.
C3_AtMostOneProducer ==
  Cardinality(ActiveProducers) <= 1

\* C4: start_recording on a recorder that is already recording fails with
\* AlreadyRecording and leaves flag, buffer and producer threads unchanged.
C4_StartWhileRecordingFails ==
  [][(nstarts' = nstarts + 1 /\ recording) =>
       /\ msg' = <<"Failed to start recording: ", "AlreadyRecording">>
       /\ UNCHANGED <<recording, frames, thr>>]_vars

\* C5: stop_recording on a recorder that is not recording (Idle or already
\* Stopped) fails with NotRecording instead of succeeding: the Stop handler
\* gets past its stop_recording call only on a recorder that was recording.
C5_StopWhenNotRecordingFails ==
  [][(pc = "idle" /\ pc' = "saving") => recording]_vars

\* C6: in the Stop handler save_recording never reads self.frames while a
\* capture thread is still running and able to append to it.
C6_SaveAfterProducerExit ==
  [][(pc = "saving" /\ pc' = "idle") =>
       \A t \in Threads : ~Running(t)]_vars

\* C7: when opening the input stream fails, the start_recording call fails
\* and the session is left Idle: flag false and no success reported.
C7_OpenFailureFailsStart ==
  [][\A t \in Threads :
       (thr[t] = "started" /\ thr'[t] = "failed") =>
          (~recording' /\ ~recording_status')]_vars

\* C8 as stated: a run whose transcribe_audio returned None calls neither
\* summarize_text nor save_summary and reports the transcription failure.
C8_NoneShortCircuits ==
  [][(pc = "transcribe_audio" /\ pc' # pc /\ run'.transcription = None) =>
       /\ pc' = "idle"
       /\ run'.calls = <<"transcribe_audio">>
       /\ notes' = notes
       /\ msg' = <<"Transcription failed. Please try recording again.">>]_vars

\* C8 amended: such a run calls neither summarize_text nor save_summary and
\* leaves the log alone; it reports the transcription failure unless a click
\* or rerun that is pending ends it at the spinner's exit or at st.error,
\* and then it shows no message.
C8_NoneShortCircuitsUnlessStopped ==
  [][(pc = "transcribe_audio" /\ pc' # pc /\ run'.transcription = None) =>
       /\ pc' = "idle"
       /\ run'.calls = <<"transcribe_audio">>
       /\ notes' = notes
       /\ msg' = IF run'.stopped
                 THEN <<>>
                 ELSE <<"Transcription failed. Please try recording again.">>]_vars

C8_Witness ==
  /\ nruns > 0
  /\ pc = "idle"
  /\ run.transcription = None
  /\ run.stopped
  /\ run.calls = <<"transcribe_audio">>
  /\ msg = <<>>

\* an exchange that is a Summarizer failure: an authorization rejection,
\* another response whose status is not 2xx, a malformed body, a transport
\* failure
SummarizerFailure(kind) ==
  \/ kind \in ApiFailures
  \/ status_code(kind) \notin 200..299

\* C9: a run in which the chat API exchange fails (401, other non-2xx,
\* malformed body, transport failure) leaves the notes log unchanged and
\* does not call save_summary: the run ends in the except branch.
C9_SummarizeFailureNoWrite ==
  [][(pc = "summarize_text" /\ pc' # pc /\ SummarizerFailure(run'.api)) =>
       /\ pc' = "idle"
       /\ notes' = notes
       /\ \A i \in 1..Len(run'.calls) : run'.calls[i] # "save_summary"]_vars

\* C10: the notes log is append-only: every step leaves the previous content
\* as a prefix of the new content, and a successful save_summary adds its
\* entry (header, then summary) at the end.
C10_AppendOnly ==
  [][/\ IsPrefix(notes, notes')
     /\ (pc = "save_summary" /\ pc' = "idle"
           /\ msg' = <<"Summary saved to class_notes.txt">>)
          => \E now \in Times :
               notes' = notes \o
                 << <<"\n--- Summary from ",
                      strftime(now, "%Y-%m-%d %H:%M:%S"), " ---\n">>,
                    <<run'.summary, "\n">> >>]_vars

C10_Witness ==
  /\ Len(notes) = 4
  /\ notes[2] = <<"Summary: hello", "\n">>
  /\ notes[4] = <<"Summary: world", "\n">>
  /\ msg = <<"Summary saved to class_notes.txt">>

\* C11: a run in which the Transcriber returned a text and the Summarizer
\* returned a summary S goes on to save_summary, and its save_summary call
\* appends exactly one entry whose summary text is S.
C11_OneEntryPerSummary ==
  [][/\ (pc = "summarize_text" /\ pc' # pc /\ run'.api = "ok")
          => /\ pc' = "save_summary"
             /\ run'.calls = <<"transcribe_audio", "summarize_text",
                               "save_summary">>
     /\ (pc = "save_summary" /\ pc' # pc /\ run.api = "ok")
          => /\ Len(notes') = Len(notes) + 2
             /\ SubSeq(notes', 1, Len(notes)) = notes
             /\ notes'[Len(notes')] = <<run.summary, "\n">>]_vars

\* a step of the Stop handler in which save_recording runs
SaveStep == pc = "saving" /\ pc' = "idle"

\* C12: save_recording is called exactly once per stopped session and only
\* once the buffer is immutable: never a second time for the same session,
\* never while a capture thread can still append.
C12_SaveOncePerSession ==
  [][SaveStep => (~saved /\ \A t \in Threads : ~Running(t))]_vars

\* C13: a failed notes-log append is reported to the caller as something
\* else than a failed summarize_text, which main reports under the label
\* "Failed to generate summary: ".
C13_AppendFailureDistinct ==
  [][(pc = "save_summary" /\ pc' # pc
        /\ run'.io \in {"open_fails"} \cup WriteFailures) =>
       ~(msg' # <<>> /\ msg'[1] = "Failed to generate summary: ")]_vars

\* C14: Stopped is terminal, a stopped AudioRecorder never goes back to
\* Recording.
C14_StoppedIsTerminal ==
  [][Stopped => ~recording']_vars

\* the samples of a buffer, chunk after chunk in arrival order
Concatenated(fr) ==
  [j \in 1..(Len(fr) * ChunkLen) |->
     <<fr[((j - 1) \div ChunkLen) + 1].n, ((j - 1) % ChunkLen) + 1>>]

\* C15: unless the file cannot be written (then the disk and recorded_files
\* stay as they were), save_recording succeeds, its path is appended to
\* recorded_files and the saved file holds the samples of the buffer's
\* chunks concatenated in arrival order, one channel, 44,100 Hz; so it does
\* for an empty buffer.
C15_SavedFileHoldsFrames ==
  [][(SaveStep /\ ~(disk' = disk /\ recorded_files' = recorded_files)) =>
       /\ recorded_files' # recorded_files
       /\ \E f \in disk' :
            /\ f.path = recorded_files'[Len(recorded_files')]
            /\ Len(f.data) = Len(frames) * ChunkLen
            /\ \A j \in 1..Len(f.data) : f.data[j] = Concatenated(frames)[j]
            /\ f.samplerate = SAMPLE_RATE
            /\ f.channels = 1]_vars

\* C16: under fair scheduling of the threads, a capture thread whose session
\* was ended by stop_recording eventually leaves _record, whatever calls
\* follow.
C16_ProducerTerminates ==
  \A t \in Threads : (Running(t) /\ ~recording) ~> ~Running(t)

\* C17: every frame of the buffer that save_recording reads was delivered by
\* the thread of the most recent start_recording.
C17_FramesOfCurrentSession ==
  [][SaveStep =>
       \A i \in 1..Len(frames) : frames[i].by = nstarts]_vars

\* C18: after every completed handler the UI flag recording_status equals
\* the recorder's recording flag.
C18_StatusMatchesRecorder ==
  pc = "idle" => recording_status = recording

\* the number of summarize_text calls among the calls of a run
SummarizeCalls(calls) ==
  Cardinality({i \in 1..Len(calls) : calls[i] = "summarize_text"})

\* C19 as stated: summarize_text is called exactly once when
\* transcribe_audio returned a non-empty text, and not at all when it
\* returned None or the empty text, which both end in the
\* transcription-failure message.
C19_SummarizeIffNonEmpty ==
  [][(pc = "transcribe_audio" /\ pc' # pc) =>
       IF run'.transcription \in {None, ""}
       THEN /\ SummarizeCalls(run'.calls) = 0
            /\ msg' = <<"Transcription failed. Please try recording again.">>
       ELSE SummarizeCalls(run'.calls) = 1]_vars

\* C19 amended: summarize_text is called at most once in a run and only
\* after transcribe_audio returned a non-empty text. A run that a pending
\* click or rerun ends at an st call after transcribe_audio calls it not at
\* all and shows no message, whatever was returned; any other run ends in
\* the transcription-failure message for None and "" and calls it exactly
\* once for a non-empty text.
C19_SummarizeUnlessStopped ==
  [][/\ SummarizeCalls(run'.calls) <= 1
     /\ SummarizeCalls(run'.calls) = 1 => ~(run'.transcription \in {None, ""})
     /\ (pc = "transcribe_audio" /\ pc' # pc) =>
          IF run'.stopped
          THEN /\ SummarizeCalls(run'.calls) = 0
               /\ pc' = "idle"
               /\ msg' = <<>>
          ELSE IF run'.transcription \in {None, ""}
          THEN /\ SummarizeCalls(run'.calls) = 0
               /\ pc' = "idle"
               /\ msg' = <<"Transcription failed. Please try recording again.">>
          ELSE /\ SummarizeCalls(run'.calls) = 1
               /\ pc' = "summarize_text"]_vars

C19_Witness ==
  /\ nruns > 1
  /\ pc = "idle"
  /\ run.transcription = "hello world"
  /\ run.stopped
  /\ run.calls = <<"transcribe_audio">>
  /\ msg = <<>>
  /\ \E i \in 1..Len(notes) : notes[i] = <<"Summary: hello", "\n">>
====
